---- MODULE Spec2Model ----
(***************************************************************************)
(* A model of rclouned's sync.py: the lock protocol of acquire_lock and    *)
(* release_lock, one cycle of Sync.run (load_last_sync, run_check,         *)
(* get_modtimes, sort, action, set_last_sync) and the loop of sync_loop    *)
(* under main, together with the two file trees the rclone commands of a   *)
(* cycle read and write.                                                   *)
(*                                                                         *)
(* Four specifications share the variables:                                *)
(*   Spec      one instance of the tool running main/sync_loop, with       *)
(*             backend failures, interrupts and a user of the folder;      *)
(*   SpecLock  several instances of the tool on the same folder;           *)
(*   SpecPlan  Sync.sort applied to inputs drawn from bounded sets;        *)
(*   SpecApply one instance running cycle after cycle on two trees that    *)
(*             nobody else changes.                                        *)
(***************************************************************************)
EXTENDS Integers, Sequences, FiniteSets, TLC

\* ------------------------------------------------------------- bounds

\* The wall clock runs over 0..MaxClock (seconds); modtimes are drawn from it.
MaxClock == 2

\* The inputs of sort are drawn with times over 0..PlanMaxTime.
PlanMaxTime == 1

\* At most this many paths are in the snapshot sort is applied to.
MaxChanged == 2

\* acquire_lock's counter i is followed up to this value.
MaxWaits == 2

\* _CONFIG["interval"], scaled to the model's clock.
Interval == 1

\* ------------------------------------------------------------- values

\* The instances of the tool that may run on one folder.
Procs == {1, 2}

\* Base file names of the synchronised tree.
Names == {"a", "b"}

Times == 0 .. MaxClock

PlanTimes == 0 .. PlanMaxTime

\* Python's None, the value local_check/remote_check hold before lsf answers
\* (a record, so that it compares with a struct_time).
None == [none |-> TRUE]

\* lastsync.txt does not exist.
NoFile == -1

\* self.syncstart is not set yet.
Unset == -1

\* A time.struct_time, compared as the tuple it is: the calendar fields
\* (one number t here) and then tm_isdst.
Parsed(t) == [t |-> t, isdst |-> -1]

\* time.localtime(0): the epoch, with tm_isdst set by the C library (0).
Epoch == [t |-> 0, isdst |-> 0]

\* a >= b on struct_time
GE(a, b) == a.t > b.t \/ (a.t = b.t /\ a.isdst >= b.isdst)

\* a < b on struct_time
LT(a, b) == a.t < b.t \/ (a.t = b.t /\ a.isdst < b.isdst)

\* A relative path is a base name followed by the conflict suffixes appended
\* to it: <<"a">> is "a", <<"a", 1>> is "a_conflict-<time 1>".
ConflictName(file, now) == Append(file, now)

\* The paths of the snapshots sort is applied to: base names, and the names
\* "a_conflict-<c>" that already carry a conflict suffix.
PathDom == {<<n>> : n \in Names} \cup {<<"a", c>> : c \in PlanTimes}

\* ------------------------------------------------------------- state

VARIABLES
    lockDir,       \* <folder>/.rclouned/sync.tmp/ exists
    scratch,       \* the files inside sync.tmp/
    lastsyncFile,  \* the line held by .rclouned/lastsync.txt, or NoFile
    clock,         \* the wall clock, in seconds
    config,        \* _CONFIG: [dryrun, careful]
    pc,            \* where each instance is in main/sync_loop/run
    exc,           \* the exception an instance is unwinding with, or None
    acq_i,         \* acquire_lock's local counter i
    start,         \* sync_loop's local start
    stored,        \* calls of set_last_sync made by the instance's current Sync object
    syncer,        \* the fields of each instance's Sync object
    folder,        \* the files of _CONFIG["folder"], .rclouned/ left out
    remote,        \* the files of remote:subdir, .rclouned/ left out
    folder_backups,  \* the files of <folder>/.rclouned/backups/
    remote_backups,  \* the files of remote:subdir/.rclouned/backups/
    backup_prefix, \* action's local backup_prefix (its time)
    calls,         \* the commands each instance has run since its cycle began
    pre_cycle      \* the two trees as they were when the lock was last taken

\* The four trees.
backend == <<folder, remote, folder_backups, remote_backups>>

vars == <<lockDir, scratch, lastsyncFile, clock, config, pc, exc, acq_i, start,
          stored, syncer, backend, backup_prefix, calls, pre_cycle>>

\* A dict with no key yet.
EmptyDict == [p \in {} |-> None]

\* Sync.__init__: an object whose cycle fields are still unset.
NewSync ==
    [lastsync |-> None, syncstart |-> Unset,
     diff |-> <<>>, dst |-> <<>>, src |-> <<>>,
     local_check |-> EmptyDict, remote_check |-> EmptyDict,
     upload |-> <<>>, download |-> <<>>, local_move |-> <<>>,
     local_backup |-> <<>>, remote_backup |-> <<>>]

\* The elements of a list.
Range(seq) == {seq[k] : k \in DOMAIN seq}

\* ------------------------------------------------------------- Sync.sort

\* The five lists as sort initialises them.
EmptyPlan ==
    [upload |-> <<>>, download |-> <<>>, local_move |-> <<>>,
     local_backup |-> <<>>, remote_backup |-> <<>>]

\* Mutant of SortDiffFile: the careful flag is not consulted.
SortDiffFileAlwaysCareful(P, file, lc, rc, lastsync, careful, conflict_suffix) ==
    IF GE(lc[file], lastsync) /\ LT(rc[file], lastsync)
    THEN [P EXCEPT !.upload = Append(@, file),
                   !.remote_backup = Append(@, file)]
    ELSE IF LT(lc[file], lastsync) /\ GE(rc[file], lastsync)
    THEN [P EXCEPT !.download = Append(@, file),
                   !.local_backup = Append(@, file)]
    ELSE [P EXCEPT !.local_move =
                       Append(@, <<file, ConflictName(file, conflict_suffix)>>),
                   !.download = Append(@, file),
                   !.upload = Append(@, ConflictName(file, conflict_suffix))]

\* One iteration of "for file in self.diff".
SortDiffFile(P, file, lc, rc, lastsync, careful, conflict_suffix) ==
    IF GE(lc[file], lastsync) /\ LT(rc[file], lastsync)
    THEN [P EXCEPT !.upload = Append(@, file),
                   !.remote_backup = IF careful THEN Append(@, file) ELSE @]
    ELSE IF LT(lc[file], lastsync) /\ GE(rc[file], lastsync)
    THEN [P EXCEPT !.download = Append(@, file),
                   !.local_backup = IF careful THEN Append(@, file) ELSE @]
    ELSE [P EXCEPT !.local_move =
                       Append(@, <<file, ConflictName(file, conflict_suffix)>>),
                   !.download = Append(@, file),
                   !.upload = Append(@, ConflictName(file, conflict_suffix))]

\* Mutant of SortSrcFile: a new local file is uploaded and backed up.
SortSrcFileBacksUpNew(P, file, lc, lastsync) ==
    IF GE(lc[file], lastsync)
    THEN [P EXCEPT !.upload = Append(@, file),
                   !.local_backup = Append(@, file)]
    ELSE [P EXCEPT !.local_backup = Append(@, file)]

\* One iteration of "for file in self.src" (missing on remote).
SortSrcFile(P, file, lc, lastsync) ==
    IF GE(lc[file], lastsync)
    THEN [P EXCEPT !.upload = Append(@, file)]
    ELSE [P EXCEPT !.local_backup = Append(@, file)]

\* Mutant of SortDstFile: a remote file older than lastsync is left alone.
SortDstFileKeepsOld(P, file, rc, lastsync) ==
    IF GE(rc[file], lastsync)
    THEN [P EXCEPT !.download = Append(@, file)]
    ELSE P

\* Mutant of SortDstFile: a new remote file is put in upload.
SortDstFileUploads(P, file, rc, lastsync) ==
    IF GE(rc[file], lastsync)
    THEN [P EXCEPT !.upload = Append(@, file)]
    ELSE [P EXCEPT !.remote_backup = Append(@, file)]

\* One iteration of "for file in self.dst" (missing on local).
SortDstFile(P, file, rc, lastsync) ==
    IF GE(rc[file], lastsync)
    THEN [P EXCEPT !.download = Append(@, file)]
    ELSE [P EXCEPT !.remote_backup = Append(@, file)]

RECURSIVE SortDiffLoop(_, _, _, _, _, _, _)
SortDiffLoop(P, files, lc, rc, lastsync, careful, conflict_suffix) ==
    IF files = <<>> THEN P
    ELSE SortDiffLoop(
             SortDiffFile(P, Head(files), lc, rc, lastsync, careful, conflict_suffix),
             Tail(files), lc, rc, lastsync, careful, conflict_suffix)

RECURSIVE SortSrcLoop(_, _, _, _)
SortSrcLoop(P, files, lc, lastsync) ==
    IF files = <<>> THEN P
    ELSE SortSrcLoop(SortSrcFile(P, Head(files), lc, lastsync), Tail(files), lc, lastsync)

RECURSIVE SortDstLoop(_, _, _, _)
SortDstLoop(P, files, rc, lastsync) ==
    IF files = <<>> THEN P
    ELSE SortDstLoop(SortDstFile(P, Head(files), rc, lastsync), Tail(files), rc, lastsync)

\* sort compares a modtime that is still None with lastsync: TypeError.
SortRaises(self) ==
    \/ \E f \in Range(self.diff) :
           self.local_check[f] = None \/ self.remote_check[f] = None
    \/ \E f \in Range(self.src) : self.local_check[f] = None
    \/ \E f \in Range(self.dst) : self.remote_check[f] = None

\* The five lists sort leaves in the object, for the suffix of time now.
SortPlan(self, careful, now) ==
    SortDstLoop(
        SortSrcLoop(
            SortDiffLoop(EmptyPlan, self.diff, self.local_check, self.remote_check,
                         self.lastsync, careful, now),
            self.src, self.local_check, self.lastsync),
        self.dst, self.remote_check, self.lastsync)

\* ------------------------------------------------------------- inputs

\* A set as a list, in a fixed order.
RECURSIVE SeqOf(_)
SeqOf(S) ==
    IF S = {} THEN <<>>
    ELSE LET x == CHOOSE y \in S : TRUE IN <<x>> \o SeqOf(S \ {x})

\* What rclone check can write to diff.txt, dst.txt and src.txt: three
\* disjoint lists over the paths of dom, at most n paths in all.
Partitions(dom, n) ==
    UNION { { [diff |-> SeqOf({p \in S : c[p] = "differ"}),
               dst  |-> SeqOf({p \in S : c[p] = "dst"}),
               src  |-> SeqOf({p \in S : c[p] = "src"})]
              : c \in [S -> {"differ", "dst", "src"}] }
            : S \in {T \in SUBSET dom : Cardinality(T) <= n} }

\* The modtimes lsf prints, parsed by time.strptime.
PlanStamps == {Parsed(t) : t \in PlanTimes}

\* The inputs of sort in SpecPlan.
PlanParts == Partitions(PathDom, MaxChanged)

\* ------------------------------------------------------------- the trees

\* A tree with no file.
EmptyTree == [p \in {} |-> None]

\* A file: the content written at path p on one side, and its modtime.
File(side, p, t) == [c |-> [by |-> side, at |-> p], t |-> t]

\* The pairs of trees that differ in at most n paths of dom: a path is on
\* both sides with two contents, on the remote only or in the folder only,
\* with modtimes of times.
Trees(dom, times, n) ==
    UNION { { [folder |-> [p \in {q \in S : c[q] # "dst"} |-> File("folder", p, lt[p])],
               remote |-> [p \in {q \in S : c[q] # "src"} |-> File("remote", p, rt[p])]]
              : c \in [S -> {"differ", "dst", "src"}],
                lt \in [S -> times], rt \in [S -> times] }
            : S \in {T \in SUBSET dom : Cardinality(T) <= n} }

\* The trees one instance of Spec starts on.
LoopTrees == Trees({<<"a">>, <<"a", 0>>}, {0, MaxClock}, 1)

\* The trees the instances of SpecLock start on.
LockTrees == Trees({<<"a">>}, {0}, 1)

\* The trees of SpecApply: the sync runs in the second MaxClock on files
\* written earlier, one of them named like a conflict copy of that second.
ApplyTrees == Trees({<<"a">>, <<"a", MaxClock>>}, PlanTimes, MaxChanged)

\* The trees a snapshot of SpecPlan was taken from.
TreeOf(side, paths, stamps) == [p \in paths |-> File(side, p, stamps[p].t)]

\* rclone check remote:subdir folder: the paths whose contents differ, the
\* paths missing on the destination (the folder) and the paths missing on
\* the source (the remote), as written to diff.txt, dst.txt and src.txt.
CheckOutput(loc, rem) ==
    [diff |-> SeqOf({p \in DOMAIN loc \cap DOMAIN rem : loc[p].c # rem[p].c}),
     dst  |-> SeqOf(DOMAIN rem \ DOMAIN loc),
     src  |-> SeqOf(DOMAIN loc \ DOMAIN rem)]

\* rclone lsf --format pt --files-from: a line for every listed path the
\* tree has, parsed into the dict old; the other keys keep their None.
Lsf(tree, old) ==
    [p \in DOMAIN old |-> IF p \in DOMAIN tree THEN Parsed(tree[p].t) ELSE old[p]]

\* rclone copy --files-from: every listed file the source has is written
\* to the destination, with its modtime.
CopyFiles(src, dst, ps) ==
    [q \in DOMAIN dst \cup (ps \cap DOMAIN src) |->
        IF q \in ps \cap DOMAIN src THEN src[q] ELSE dst[q]]

\* Mutant of DeleteFiles: nothing is removed.
DeleteNothing(tree, ps) == tree

\* rclone delete --files-from: the listed files are removed.
DeleteFiles(tree, ps) == [q \in DOMAIN tree \ ps |-> tree[q]]

\* rclone copy --files-from into <root>/.rclouned/backups/<prefix>/.
ArchiveFiles(src, backups, prefix, ps) ==
    LET new == {<<prefix, q>> : q \in ps \cap DOMAIN src} IN
    [k \in DOMAIN backups \cup new |-> IF k \in new THEN src[k[2]] ELSE backups[k]]

\* mv from to: the file is renamed, replacing a file that has the name.
MoveFile(tree, from, to) ==
    [q \in (DOMAIN tree \ {from}) \cup {to} |-> IF q = to THEN tree[from] ELSE tree[q]]

\* "for file in self.local_move: mv", every mv done.
RECURSIVE MoveFiles(_, _)
MoveFiles(tree, moves) ==
    IF moves = <<>> THEN tree
    ELSE MoveFiles(MoveFile(tree, Head(moves)[1], Head(moves)[2]), Tail(moves))

\* Every mv of the loop finds its source (mv exits non-zero otherwise).
RECURSIVE Movable(_, _)
Movable(tree, moves) ==
    IF moves = <<>> THEN TRUE
    ELSE IF Head(moves)[1] \notin DOMAIN tree THEN FALSE
    ELSE Movable(MoveFile(tree, Head(moves)[1], Head(moves)[2]), Tail(moves))

\* The four trees as one value.
World ==
    [folder |-> folder, remote |-> remote,
     folder_backups |-> folder_backups, remote_backups |-> remote_backups]

\* What the rclone command cmd of the block of list does to the trees when
\* it has worked through the paths ps: action's four blocks.
Applied(W, cmd, list, ps, prefix) ==
    IF list = "local_backup" /\ cmd = "copy"
    THEN [W EXCEPT !.folder_backups = ArchiveFiles(W.folder, @, prefix, ps)]
    ELSE IF list = "local_backup" /\ cmd = "delete"
    THEN [W EXCEPT !.folder = DeleteFiles(@, ps)]
    ELSE IF list = "remote_backup" /\ cmd = "copy"
    THEN [W EXCEPT !.remote_backups = ArchiveFiles(W.remote, @, prefix, ps)]
    ELSE IF list = "remote_backup" /\ cmd = "delete"
    THEN [W EXCEPT !.remote = DeleteFiles(@, ps)]
    ELSE IF list = "upload" /\ cmd = "copy"
    THEN [W EXCEPT !.remote = CopyFiles(W.folder, @, ps)]
    ELSE IF list = "download" /\ cmd = "copy"
    THEN [W EXCEPT !.folder = CopyFiles(W.remote, @, ps)]
    ELSE W

\* ------------------------------------------------------------- helpers

Goto(s, label) == pc' = [pc EXCEPT ![s] = label]

\* An exception raised inside the try block of sync_loop: control moves to
\* the finally clause with the exception pending.
Raise(s, e) ==
    /\ pc' = [pc EXCEPT ![s] = "finally"]
    /\ exc' = [exc EXCEPT ![s] = e]

\* exec_cmd with check=True on a command that exits non-zero.
ExecFails(s) == Raise(s, "CalledProcessError")

SetFields(s, f) == syncer' = [syncer EXCEPT ![s] = f]

\* Mutant of DryRunFlag: --dry-run is never added.
NoDryRunFlag(cmd) == FALSE

\* exec_rclone: --dry-run is added to every command but check.
DryRunFlag(cmd) == config.dryrun /\ cmd # "check"

\* exec_cmd runs a command: it is added to the commands of the cycle, with
\* the list of the plan it works on.
Call(cmd, list) == [cmd |-> cmd, list |-> list, dry |-> DryRunFlag(cmd)]

Issue(s, cmd, list) == calls' = [calls EXCEPT ![s] = Append(@, Call(cmd, list))]

\* mv is run by exec_cmd itself, once for every pair of moves.
IssueMoves(s, moves) ==
    calls' = [calls EXCEPT ![s] =
                 @ \o [k \in 1 .. Len(moves) |->
                           [cmd |-> "mv", list |-> "local_move", dry |-> FALSE]]]

\* The trees after cmd has worked through the paths ps; with --dry-run
\* rclone changes nothing.
Effect(cmd, list, ps, prefix) ==
    LET W == IF DryRunFlag(cmd) THEN World
             ELSE Applied(World, cmd, list, ps, prefix) IN
    /\ folder' = W.folder
    /\ remote' = W.remote
    /\ folder_backups' = W.folder_backups
    /\ remote_backups' = W.remote_backups

\* The positions inside "try: syncer.run()".
InRun ==
    {"load", "check", "check_read", "get_modtimes", "lsf_local", "lsf_remote",
     "sort", "action", "local_backup", "lb_copy", "lb_delete",
     "remote_backup", "rb_copy", "rb_delete", "upload", "up_copy",
     "download", "down_copy", "set_last_sync"}

\* Between a successful acquire_lock and the end of release_lock.
InCycle(s) == pc[s] \in InRun \cup {"finally"}

\* ------------------------------------------------------------- main

\* main: wait_for_folder and parse_config succeed, sync_loop is entered.
ParseConfigOk(s) ==
    /\ pc[s] = "startup"
    /\ Goto(s, "start")
    /\ UNCHANGED <<lockDir, scratch, lastsyncFile, clock, config, exc, acq_i,
                   start, stored, syncer>>
    /\ UNCHANGED <<backend, backup_prefix, calls, pre_cycle>>

\* parse_config raises ConfigException; main logs it and exits with 1.
ParseConfigFail(s) ==
    /\ pc[s] = "startup"
    /\ pc' = [pc EXCEPT ![s] = "exit1"]
    /\ exc' = [exc EXCEPT ![s] = "ConfigException"]
    /\ UNCHANGED <<lockDir, scratch, lastsyncFile, clock, config, acq_i,
                   start, stored, syncer>>
    /\ UNCHANGED <<backend, backup_prefix, calls, pre_cycle>>

\* ------------------------------------------------------------- sync_loop

\* The top of "while True": start = time.time(); syncer = Sync(_CONFIG).
LoopStart(s) ==
    /\ pc[s] = "start"
    /\ start' = [start EXCEPT ![s] = clock]
    /\ SetFields(s, NewSync)
    /\ stored' = [stored EXCEPT ![s] = 0]
    /\ acq_i' = [acq_i EXCEPT ![s] = 0]
    /\ calls' = [calls EXCEPT ![s] = <<>>]
    /\ Goto(s, "acquire")
    /\ UNCHANGED <<lockDir, scratch, lastsyncFile, clock, config, exc>>
    /\ UNCHANGED <<backend, backup_prefix, pre_cycle>>

\* acquire_lock: os.path.exists is true; i += 1, sleep, test again.
AcquireWait(s) ==
    /\ pc[s] = "acquire"
    /\ lockDir
    /\ acq_i[s] < MaxWaits
    /\ acq_i' = [acq_i EXCEPT ![s] = @ + 1]
    /\ UNCHANGED <<lockDir, scratch, lastsyncFile, clock, config, pc, exc,
                   start, stored, syncer>>
    /\ UNCHANGED <<backend, backup_prefix, calls, pre_cycle>>

\* acquire_lock: os.path.exists is false; the while loop is left.
AcquireSeesAbsent(s) ==
    /\ pc[s] = "acquire"
    /\ ~lockDir
    /\ Goto(s, "mkdir")
    /\ UNCHANGED <<lockDir, scratch, lastsyncFile, clock, config, exc, acq_i,
                   start, stored, syncer>>
    /\ UNCHANGED <<backend, backup_prefix, calls, pre_cycle>>

\* Mutant of MkdirRaises: the directory is made with exist_ok=True.
MkdirExistOk == FALSE

\* os.mkdir raises FileExistsError when the directory exists.
MkdirRaises == lockDir

\* acquire_lock: os.mkdir. FileExistsError is raised outside the try block
\* of sync_loop and reaches main, which exits with 1.
Mkdir(s) ==
    /\ pc[s] = "mkdir"
    /\ IF MkdirRaises
       THEN /\ pc' = [pc EXCEPT ![s] = "exit1"]
            /\ exc' = [exc EXCEPT ![s] = "FileExistsError"]
            /\ UNCHANGED <<lockDir, pre_cycle>>
       ELSE /\ lockDir' = TRUE
            /\ pre_cycle' = [folder |-> folder, remote |-> remote]
            /\ Goto(s, "load")
            /\ UNCHANGED exc
    /\ UNCHANGED <<scratch, lastsyncFile, clock, config, acq_i, start, stored,
                   syncer>>
    /\ UNCHANGED <<backend, backup_prefix, calls>>

\* ------------------------------------------------------------- Sync.run

\* What load_last_sync makes of lastsync.txt.
LoadedLastSync(file) == IF file = NoFile THEN Epoch ELSE Parsed(file)

LoadLastSync(s) ==
    /\ pc[s] = "load"
    /\ SetFields(s, [syncer[s] EXCEPT !.lastsync = LoadedLastSync(lastsyncFile)])
    /\ Goto(s, "check")
    /\ UNCHANGED <<lockDir, scratch, lastsyncFile, clock, config, exc, acq_i,
                   start, stored>>
    /\ UNCHANGED <<backend, backup_prefix, calls, pre_cycle>>

\* run_check: syncstart is taken, rclone check runs (its exit code is not
\* checked) and has written diff.txt, dst.txt and src.txt.
RunCheckExec(s) ==
    /\ pc[s] = "check"
    /\ SetFields(s, [syncer[s] EXCEPT !.syncstart = clock])
    /\ Issue(s, "check", "diff")
    /\ scratch' = scratch \cup {"diff.txt", "dst.txt", "src.txt"}
    /\ Goto(s, "check_read")
    /\ UNCHANGED <<lockDir, lastsyncFile, clock, config, exc, acq_i, start, stored>>
    /\ UNCHANGED <<backend, backup_prefix, pre_cycle>>

\* run_check: rclone check ended before it created its output files; open()
\* raises FileNotFoundError.
RunCheckNoOutput(s) ==
    /\ pc[s] = "check"
    /\ SetFields(s, [syncer[s] EXCEPT !.syncstart = clock])
    /\ Issue(s, "check", "diff")
    /\ Raise(s, "FileNotFoundError")
    /\ UNCHANGED <<lockDir, scratch, lastsyncFile, clock, config, acq_i, start,
                   stored>>
    /\ UNCHANGED <<backend, backup_prefix, pre_cycle>>

\* run_check: the three files, which hold what rclone check found in the
\* two trees, are read into diff, dst, src and removed.
RunCheckRead(s) ==
    /\ pc[s] = "check_read"
    /\ LET part == CheckOutput(folder, remote) IN
           SetFields(s, [syncer[s] EXCEPT !.diff = part.diff,
                                          !.dst = part.dst,
                                          !.src = part.src])
    /\ scratch' = scratch \ {"diff.txt", "dst.txt", "src.txt"}
    /\ Goto(s, "get_modtimes")
    /\ UNCHANGED <<lockDir, lastsyncFile, clock, config, exc, acq_i, start, stored>>
    /\ UNCHANGED <<backend, backup_prefix, calls, pre_cycle>>

\* get_modtimes: the two dicts get their keys, local_check.txt is written.
GetModtimesBegin(s) ==
    /\ pc[s] = "get_modtimes"
    /\ LET self == syncer[s] IN
       SetFields(s, [self EXCEPT
           !.local_check = [p \in Range(self.diff) \cup Range(self.src) |-> None],
           !.remote_check = [p \in Range(self.diff) \cup Range(self.dst) |-> None]])
    /\ scratch' = scratch \cup {"local_check.txt"}
    /\ Goto(s, "lsf_local")
    /\ UNCHANGED <<lockDir, lastsyncFile, clock, config, exc, acq_i, start, stored>>
    /\ UNCHANGED <<backend, backup_prefix, calls, pre_cycle>>

\* get_modtimes: lsf on the folder succeeds; its lines are parsed,
\* local_check.txt is removed and remote_check.txt is written.
LsfLocalOk(s) ==
    /\ pc[s] = "lsf_local"
    /\ SetFields(s, [syncer[s] EXCEPT !.local_check = Lsf(folder, @)])
    /\ Issue(s, "lsf", "local_check")
    /\ scratch' = (scratch \ {"local_check.txt"}) \cup {"remote_check.txt"}
    /\ Goto(s, "lsf_remote")
    /\ UNCHANGED <<lockDir, lastsyncFile, clock, config, exc, acq_i, start, stored>>
    /\ UNCHANGED <<backend, backup_prefix, pre_cycle>>

LsfLocalFail(s) ==
    /\ pc[s] = "lsf_local"
    /\ Issue(s, "lsf", "local_check")
    /\ ExecFails(s)
    /\ UNCHANGED <<lockDir, scratch, lastsyncFile, clock, config, acq_i, start,
                   stored, syncer>>
    /\ UNCHANGED <<backend, backup_prefix, pre_cycle>>

\* get_modtimes: lsf on the remote succeeds; remote_check.txt is removed.
LsfRemoteOk(s) ==
    /\ pc[s] = "lsf_remote"
    /\ SetFields(s, [syncer[s] EXCEPT !.remote_check = Lsf(remote, @)])
    /\ Issue(s, "lsf", "remote_check")
    /\ scratch' = scratch \ {"remote_check.txt"}
    /\ Goto(s, "sort")
    /\ UNCHANGED <<lockDir, lastsyncFile, clock, config, exc, acq_i, start, stored>>
    /\ UNCHANGED <<backend, backup_prefix, pre_cycle>>

LsfRemoteFail(s) ==
    /\ pc[s] = "lsf_remote"
    /\ Issue(s, "lsf", "remote_check")
    /\ ExecFails(s)
    /\ UNCHANGED <<lockDir, scratch, lastsyncFile, clock, config, acq_i, start,
                   stored, syncer>>
    /\ UNCHANGED <<backend, backup_prefix, pre_cycle>>

\* sort (and log_summary): the five lists are computed with the suffix of
\* the current second, or the comparison with a None modtime raises.
Sort(s) ==
    /\ pc[s] = "sort"
    /\ IF SortRaises(syncer[s])
       THEN /\ Raise(s, "TypeError")
            /\ UNCHANGED syncer
       ELSE /\ LET P == SortPlan(syncer[s], config.careful, clock) IN
               SetFields(s, [syncer[s] EXCEPT
                   !.upload = P.upload, !.download = P.download,
                   !.local_move = P.local_move,
                   !.local_backup = P.local_backup,
                   !.remote_backup = P.remote_backup])
            /\ Goto(s, "action")
            /\ UNCHANGED exc
    /\ UNCHANGED <<lockDir, scratch, lastsyncFile, clock, config, acq_i, start,
                   stored>>
    /\ UNCHANGED <<backend, backup_prefix, calls, pre_cycle>>

\* ------------------------------------------------------------- Sync.action

\* Mutant of MovesFiles: the renames are made in a dry run too.
MovesFilesAlways == TRUE

\* "if not self.config("dryrun")" in front of the loop of mv.
MovesFiles == ~config.dryrun

\* The pairs the loop of mv works through.
Moves(s) == IF MovesFiles THEN syncer[s].local_move ELSE <<>>

\* action: backup_prefix is taken; "if not dryrun: for file in local_move:
\* mv": every mv succeeds, or the loop is not entered.
ActionMoveOk(s) ==
    /\ pc[s] = "action"
    /\ backup_prefix' = [backup_prefix EXCEPT ![s] = clock]
    /\ Movable(folder, Moves(s))
    /\ folder' = MoveFiles(folder, Moves(s))
    /\ IssueMoves(s, Moves(s))
    /\ Goto(s, "local_backup")
    /\ UNCHANGED <<lockDir, scratch, lastsyncFile, clock, config, exc, acq_i,
                   start, stored, syncer>>
    /\ UNCHANGED <<remote, folder_backups, remote_backups, pre_cycle>>

\* The k-th mv exits non-zero, after the renames before it.
ActionMoveFail(s) ==
    /\ pc[s] = "action"
    /\ backup_prefix' = [backup_prefix EXCEPT ![s] = clock]
    /\ \E k \in 1 .. Len(Moves(s)) :
           /\ Movable(folder, SubSeq(Moves(s), 1, k - 1))
           /\ folder' = MoveFiles(folder, SubSeq(Moves(s), 1, k - 1))
           /\ IssueMoves(s, SubSeq(Moves(s), 1, k))
    /\ ExecFails(s)
    /\ UNCHANGED <<lockDir, scratch, lastsyncFile, clock, config, acq_i, start,
                   stored, syncer>>
    /\ UNCHANGED <<remote, folder_backups, remote_backups, pre_cycle>>

\* "if len(list)" is false: the block at position at is skipped.
SkipBlock(s, at, list, next) ==
    /\ pc[s] = at
    /\ list = <<>>
    /\ Goto(s, next)
    /\ UNCHANGED <<lockDir, scratch, lastsyncFile, clock, config, exc, acq_i,
                   start, stored, syncer>>
    /\ UNCHANGED <<backend, backup_prefix, calls, pre_cycle>>

\* "if len(list)" is true: the list is written to file under sync.tmp/.
BeginBlock(s, at, list, file, next) ==
    /\ pc[s] = at
    /\ list # <<>>
    /\ scratch' = scratch \cup {file}
    /\ Goto(s, next)
    /\ UNCHANGED <<lockDir, lastsyncFile, clock, config, exc, acq_i, start,
                   stored, syncer>>
    /\ UNCHANGED <<backend, backup_prefix, calls, pre_cycle>>

\* The rclone command cmd of the block of list succeeds at position at and
\* another command of the block follows.
ExecOk(s, at, cmd, list, next) ==
    /\ pc[s] = at
    /\ Issue(s, cmd, list)
    /\ Effect(cmd, list, Range(syncer[s][list]), backup_prefix[s])
    /\ Goto(s, next)
    /\ UNCHANGED <<lockDir, scratch, lastsyncFile, clock, config, exc, acq_i,
                   start, stored, syncer>>
    /\ UNCHANGED <<backup_prefix, pre_cycle>>

\* The last rclone command of a block succeeds and os.remove(file) follows.
ExecOkRemove(s, at, cmd, list, file, next) ==
    /\ pc[s] = at
    /\ Issue(s, cmd, list)
    /\ Effect(cmd, list, Range(syncer[s][list]), backup_prefix[s])
    /\ scratch' = scratch \ {file}
    /\ Goto(s, next)
    /\ UNCHANGED <<lockDir, lastsyncFile, clock, config, exc, acq_i, start,
                   stored, syncer>>
    /\ UNCHANGED <<backup_prefix, pre_cycle>>

\* The rclone command at position at exits non-zero (with --dry-run too),
\* having worked through some of the paths of its list.
ExecFail(s, at, cmd, list) ==
    /\ pc[s] = at
    /\ Issue(s, cmd, list)
    /\ \E done \in SUBSET Range(syncer[s][list]) :
           Effect(cmd, list, done, backup_prefix[s])
    /\ ExecFails(s)
    /\ UNCHANGED <<lockDir, scratch, lastsyncFile, clock, config, acq_i, start,
                   stored, syncer>>
    /\ UNCHANGED <<backup_prefix, pre_cycle>>

LocalBackupSkip(s) == SkipBlock(s, "local_backup", syncer[s].local_backup, "remote_backup")

\* Mutant of LocalBackupBegin: the files are deleted without the copy.
LocalBackupBeginNoCopy(s) ==
    BeginBlock(s, "local_backup", syncer[s].local_backup, "local_backup.txt", "lb_delete")

LocalBackupBegin(s) ==
    BeginBlock(s, "local_backup", syncer[s].local_backup, "local_backup.txt", "lb_copy")

LocalBackupCopyOk(s) == ExecOk(s, "lb_copy", "copy", "local_backup", "lb_delete")

LocalBackupCopyFail(s) == ExecFail(s, "lb_copy", "copy", "local_backup")

LocalBackupDeleteOk(s) ==
    ExecOkRemove(s, "lb_delete", "delete", "local_backup", "local_backup.txt", "remote_backup")

LocalBackupDeleteFail(s) == ExecFail(s, "lb_delete", "delete", "local_backup")

RemoteBackupSkip(s) == SkipBlock(s, "remote_backup", syncer[s].remote_backup, "upload")

RemoteBackupBegin(s) ==
    BeginBlock(s, "remote_backup", syncer[s].remote_backup, "remote_backup.txt", "rb_copy")

RemoteBackupCopyOk(s) == ExecOk(s, "rb_copy", "copy", "remote_backup", "rb_delete")

RemoteBackupCopyFail(s) == ExecFail(s, "rb_copy", "copy", "remote_backup")

RemoteBackupDeleteOk(s) ==
    ExecOkRemove(s, "rb_delete", "delete", "remote_backup", "remote_backup.txt", "upload")

RemoteBackupDeleteFail(s) == ExecFail(s, "rb_delete", "delete", "remote_backup")

UploadSkip(s) == SkipBlock(s, "upload", syncer[s].upload, "download")

UploadBegin(s) == BeginBlock(s, "upload", syncer[s].upload, "upload.txt", "up_copy")

UploadCopyOk(s) == ExecOkRemove(s, "up_copy", "copy", "upload", "upload.txt", "download")

UploadCopyFail(s) == ExecFail(s, "up_copy", "copy", "upload")

DownloadSkip(s) == SkipBlock(s, "download", syncer[s].download, "set_last_sync")

DownloadBegin(s) == BeginBlock(s, "download", syncer[s].download, "download.txt", "down_copy")

DownloadCopyOk(s) ==
    ExecOkRemove(s, "down_copy", "copy", "download", "download.txt", "set_last_sync")

DownloadCopyFail(s) == ExecFail(s, "down_copy", "copy", "download")

\* ------------------------------------------------------------- end of run

\* Mutant of MarkerLine: the time at the end of the cycle is written.
MarkerLineAtEnd(s) == clock

\* The line set_last_sync writes to lastsync.txt.
MarkerLine(s) == syncer[s].syncstart

\* run: "if not dryrun: set_last_sync()".
RunStores == ~config.dryrun

\* The last statement of run; control then reaches the finally clause.
SetLastSync(s) ==
    /\ pc[s] = "set_last_sync"
    /\ IF RunStores
       THEN /\ lastsyncFile' = MarkerLine(s)
            /\ stored' = [stored EXCEPT ![s] = @ + 1]
       ELSE UNCHANGED <<lastsyncFile, stored>>
    /\ Goto(s, "finally")
    /\ UNCHANGED <<lockDir, scratch, clock, config, exc, acq_i, start, syncer>>
    /\ UNCHANGED <<backend, backup_prefix, calls, pre_cycle>>

\* os.rmdir raises OSError when sync.tmp/ is missing or not empty.
RmdirFails == ~lockDir \/ scratch # {}

\* Where control goes after the finally clause: on to the loop when run
\* returned or raised SyncException, to main's "except Exception" (exit 1)
\* for any other Exception, out of main for a KeyboardInterrupt.
AfterFinally(e) ==
    IF e \in {"none", "SyncException"} THEN "after"
    ELSE IF e = "KeyboardInterrupt" THEN "killed"
    ELSE "exit1"

\* finally: release_lock. A failed rmdir is logged, nothing is raised.
ReleaseLock(s) ==
    /\ pc[s] = "finally"
    /\ lockDir' = IF RmdirFails THEN lockDir ELSE FALSE
    /\ Goto(s, AfterFinally(exc[s]))
    /\ UNCHANGED <<scratch, lastsyncFile, clock, config, exc, acq_i, start,
                   stored, syncer>>
    /\ UNCHANGED <<backend, backup_prefix, calls, pre_cycle>>

\* Mutant of Sleeps: the loop sleeps after every cycle.
SleepsAlways(runtime) == TRUE

\* "if not (_CONFIG["interval"] - runtime) < 0".
Sleeps(runtime) == ~(Interval - runtime < 0)

\* The end of the loop body: sleep, or start the next cycle at once.
LoopEnd(s) ==
    /\ pc[s] = "after"
    /\ LET runtime == clock - start[s] IN
       Goto(s, IF Sleeps(runtime) THEN "sleep" ELSE "start")
    /\ UNCHANGED <<lockDir, scratch, lastsyncFile, clock, config, exc, acq_i,
                   start, stored, syncer>>
    /\ UNCHANGED <<backend, backup_prefix, calls, pre_cycle>>

\* time.sleep returns.
SleepDone(s) ==
    /\ pc[s] = "sleep"
    /\ Goto(s, "start")
    /\ UNCHANGED <<lockDir, scratch, lastsyncFile, clock, config, exc, acq_i,
                   start, stored, syncer>>
    /\ UNCHANGED <<backend, backup_prefix, calls, pre_cycle>>

\* KeyboardInterrupt during the inter-cycle sleep: sys.exit(0).
SleepInterrupt(s) ==
    /\ pc[s] = "sleep"
    /\ pc' = [pc EXCEPT ![s] = "exit0"]
    /\ exc' = [exc EXCEPT ![s] = "KeyboardInterrupt"]
    /\ UNCHANGED <<lockDir, scratch, lastsyncFile, clock, config, acq_i, start,
                   stored, syncer>>
    /\ UNCHANGED <<backend, backup_prefix, calls, pre_cycle>>

\* KeyboardInterrupt while run() executes: the finally clause runs with it.
Interrupt(s) ==
    /\ pc[s] \in InRun
    /\ Raise(s, "KeyboardInterrupt")
    /\ UNCHANGED <<lockDir, scratch, lastsyncFile, clock, config, acq_i, start,
                   stored, syncer>>
    /\ UNCHANGED <<backend, backup_prefix, calls, pre_cycle>>

\* KeyboardInterrupt anywhere else (start-up, acquire_lock, the loop's own
\* statements): no handler catches it, the process dies.
InterruptOutside(s) ==
    /\ pc[s] \in {"startup", "start", "acquire", "mkdir", "after"}
    /\ pc' = [pc EXCEPT ![s] = "killed"]
    /\ exc' = [exc EXCEPT ![s] = "KeyboardInterrupt"]
    /\ UNCHANGED <<lockDir, scratch, lastsyncFile, clock, config, acq_i, start,
                   stored, syncer>>
    /\ UNCHANGED <<backend, backup_prefix, calls, pre_cycle>>

\* ------------------------------------------------------------- environment

\* A second passes.
Tick ==
    /\ clock < MaxClock
    /\ clock' = clock + 1
    /\ UNCHANGED <<lockDir, scratch, lastsyncFile, config, pc, exc, acq_i,
                   start, stored, syncer>>
    /\ UNCHANGED <<backend, backup_prefix, calls, pre_cycle>>

\* The operator removes a lock that no running instance holds, as the log
\* message of acquire_lock asks.
RemoveStaleLock ==
    /\ lockDir
    /\ \A s \in Procs : ~InCycle(s)
    /\ lockDir' = FALSE
    /\ scratch' = {}
    /\ UNCHANGED <<lastsyncFile, clock, config, pc, exc, acq_i, start, stored,
                   syncer>>
    /\ UNCHANGED <<backend, backup_prefix, calls, pre_cycle>>

\* A user of the folder removes a file of it after rclone check has seen
\* it and before rclone lsf lists the folder.
UserRemoves ==
    /\ \E s \in Procs : pc[s] \in {"get_modtimes", "lsf_local"}
    /\ \E p \in DOMAIN folder : folder' = [q \in DOMAIN folder \ {p} |-> folder[q]]
    /\ UNCHANGED <<lockDir, scratch, lastsyncFile, clock, config, pc, exc, acq_i,
                   start, stored, syncer>>
    /\ UNCHANGED <<remote, folder_backups, remote_backups, backup_prefix, calls,
                   pre_cycle>>

\* ------------------------------------------------------------- specifications

\* main up to sync_loop.
Startup(s) == ParseConfigOk(s) \/ ParseConfigFail(s)

\* The steps of "try: syncer.run()".
Run(s) ==
    \/ LoadLastSync(s)
    \/ RunCheckExec(s) \/ RunCheckNoOutput(s) \/ RunCheckRead(s)
    \/ GetModtimesBegin(s)
    \/ LsfLocalOk(s) \/ LsfLocalFail(s)
    \/ LsfRemoteOk(s) \/ LsfRemoteFail(s)
    \/ Sort(s)
    \/ ActionMoveOk(s) \/ ActionMoveFail(s)
    \/ LocalBackupSkip(s) \/ LocalBackupBegin(s)
    \/ LocalBackupCopyOk(s) \/ LocalBackupCopyFail(s)
    \/ LocalBackupDeleteOk(s) \/ LocalBackupDeleteFail(s)
    \/ RemoteBackupSkip(s) \/ RemoteBackupBegin(s)
    \/ RemoteBackupCopyOk(s) \/ RemoteBackupCopyFail(s)
    \/ RemoteBackupDeleteOk(s) \/ RemoteBackupDeleteFail(s)
    \/ UploadSkip(s) \/ UploadBegin(s) \/ UploadCopyOk(s) \/ UploadCopyFail(s)
    \/ DownloadSkip(s) \/ DownloadBegin(s)
    \/ DownloadCopyOk(s) \/ DownloadCopyFail(s)
    \/ SetLastSync(s)

\* The steps of the body of "while True" around run().
Loop(s) ==
    \/ LoopStart(s) \/ AcquireSeesAbsent(s) \/ Mkdir(s)
    \/ ReleaseLock(s)
    \/ LoopEnd(s) \/ SleepDone(s)

\* Every step an instance can take.
Step(s) ==
    \/ Startup(s)
    \/ Loop(s)
    \/ AcquireWait(s)
    \/ Run(s)
    \/ SleepInterrupt(s) \/ Interrupt(s) \/ InterruptOutside(s)

\* What is the same in every initial state.
InitCommon ==
    /\ exc = [s \in Procs |-> "none"]
    /\ acq_i = [s \in Procs |-> 0]
    /\ start = [s \in Procs |-> 0]
    /\ stored = [s \in Procs |-> 0]
    /\ folder_backups = EmptyTree
    /\ remote_backups = EmptyTree
    /\ backup_prefix = [s \in Procs |-> Unset]
    /\ calls = [s \in Procs |-> <<>>]
    /\ pre_cycle = [folder |-> folder, remote |-> remote]

\* One instance is started by main. The folder may hold a lock left by an
\* earlier run that died, and a marker written by an earlier run.
Init ==
    /\ clock = 0
    /\ lockDir \in BOOLEAN
    /\ scratch \in (IF lockDir THEN {{}, {"local_check.txt"}} ELSE {{}})
    /\ lastsyncFile \in {NoFile, 0}
    /\ config \in [dryrun : BOOLEAN, careful : BOOLEAN]
    /\ pc = [s \in Procs |-> IF s = 1 THEN "startup" ELSE "off"]
    /\ syncer = [s \in Procs |-> NewSync]
    /\ \E T \in LoopTrees : folder = T.folder /\ remote = T.remote
    /\ InitCommon

Next ==
    \/ Tick
    \/ RemoveStaleLock
    \/ UserRemoves
    \/ Step(1)

Spec == Init /\ [][Next]_vars

\* Every instance of Procs is started on the same, unlocked folder. The
\* clock stands still in this specification.
LockInit ==
    /\ clock = 0
    /\ lockDir = FALSE
    /\ scratch = {}
    /\ lastsyncFile = NoFile
    /\ config \in [dryrun : {FALSE}, careful : BOOLEAN]
    /\ pc = [s \in Procs |-> "startup"]
    /\ syncer = [s \in Procs |-> NewSync]
    /\ \E T \in LockTrees : folder = T.folder /\ remote = T.remote
    /\ InitCommon

LockNext ==
    \/ RemoveStaleLock
    \/ \E s \in Procs : Step(s)

SpecLock == LockInit /\ [][LockNext]_vars

\* Instance 1 holds the lock and is about to call sort on a snapshot drawn
\* from PlanParts with every modtime listed.
PlanInit ==
    /\ clock \in PlanTimes
    /\ lockDir = TRUE
    /\ scratch = {}
    /\ config \in [dryrun : {FALSE}, careful : BOOLEAN]
    /\ pc = [s \in Procs |-> IF s = 1 THEN "sort" ELSE "off"]
    /\ \E part \in PlanParts, syncstart \in PlanTimes :
         /\ syncstart <= clock
         /\ lastsyncFile \in {NoFile} \cup (0 .. syncstart)
         /\ \E lc \in [Range(part.diff) \cup Range(part.src) -> PlanStamps],
               rc \in [Range(part.diff) \cup Range(part.dst) -> PlanStamps] :
                /\ syncer = [s \in Procs |->
                    IF s = 1
                    THEN [NewSync EXCEPT !.lastsync = LoadedLastSync(lastsyncFile),
                                         !.syncstart = syncstart,
                                         !.diff = part.diff, !.dst = part.dst,
                                         !.src = part.src,
                                         !.local_check = lc, !.remote_check = rc]
                    ELSE NewSync]
                /\ folder = TreeOf("folder", DOMAIN lc, lc)
                /\ remote = TreeOf("remote", DOMAIN rc, rc)
    /\ InitCommon

\* The cycle ends with set_last_sync, the next one begins with
\* load_last_sync, and sort runs again on the snapshot the object holds.
Replan(s) ==
    /\ pc[s] = "action"
    /\ stored[s] = 0
    /\ RunStores
    /\ lastsyncFile' = MarkerLine(s)
    /\ stored' = [stored EXCEPT ![s] = 1]
    /\ SetFields(s, [syncer[s] EXCEPT !.lastsync = LoadedLastSync(MarkerLine(s))])
    /\ Goto(s, "sort")
    /\ UNCHANGED <<lockDir, scratch, clock, config, exc, acq_i, start>>
    /\ UNCHANGED <<backend, backup_prefix, calls, pre_cycle>>

PlanNext == Sort(1) \/ Replan(1)

SpecPlan == PlanInit /\ [][PlanNext]_vars

\* Instance 1 is in sync_loop on an unlocked folder, in the second MaxClock;
\* the marker, if there is one, was written in an earlier second. Nobody
\* else touches the trees and the clock stands still.
ApplyInit ==
    /\ clock = MaxClock
    /\ lockDir = FALSE
    /\ scratch = {}
    /\ lastsyncFile \in {NoFile} \cup (0 .. MaxClock - 1)
    /\ config \in [dryrun : BOOLEAN, careful : BOOLEAN]
    /\ pc = [s \in Procs |-> IF s = 1 THEN "start" ELSE "off"]
    /\ syncer = [s \in Procs |-> NewSync]
    /\ \E T \in ApplyTrees : folder = T.folder /\ remote = T.remote
    /\ InitCommon

ApplyNext == Loop(1) \/ Run(1)

SpecApply == ApplyInit /\ [][ApplyNext]_vars

\* ------------------------------------------------------------- claims: lock and loop

\* The errors run() can raise: a backend command that exits non-zero, a
\* missing output file of rclone check, a None modtime in sort.
CycleErrors == {"CalledProcessError", "FileNotFoundError", "TypeError"}

\* C1 (as claimed): whatever the outcome of the cycle (run returns, run
\* raises, an interrupt arrives), the lock marker sync.tmp/ does not exist
\* once release_lock has completed in the finally clause, also when a
\* scratch file is still inside the marker directory.
C1_LockGoneAfterRelease ==
    [][\A s \in Procs :
          (pc[s] = "finally" /\ pc'[s] # "finally") => ~lockDir']_vars

\* C2 (as claimed): no instance terminates because a backend command of the
\* cycle exited non-zero or a path of the diff had no modtime; such an error
\* ends only the cycle.
C2_ErrorConfinedToCycle ==
    \A s \in Procs :
        pc[s] \in {"exit0", "exit1", "killed"} =>
            exc[s] \notin {"CalledProcessError", "TypeError"}

\* C3: at most one instance is between a successful acquire_lock and the end
\* of its release_lock, so the steps of run() of two instances never overlap.
C3_MutualExclusion ==
    \A s, t \in Procs : (s # t /\ InCycle(s)) => ~InCycle(t)

\* An instance is inside its cycle while another one, which saw the marker
\* absent before the first created it, is about to call os.mkdir.
C3_Witness ==
    \E s, t \in Procs : s # t /\ InCycle(s) /\ pc[t] = "mkdir"

\* C4 (as claimed): acquire_lock never ends in an error, under any
\* interleaving with another instance acquiring the same folder.
C4_AcquireNeverFails ==
    \A s \in Procs : exc[s] # "FileExistsError"

\* C10: the marker is written at most once per cycle, only by the last
\* statement of run() after every earlier step succeeded and only when
\* dryrun is false; the value written is syncstart, the time taken when the
\* check was issued; a cycle that fails leaves the marker as load_last_sync
\* read it at the start of the cycle.
C10_MarkerWrittenOnSuccessOnly ==
    /\ [][lastsyncFile' # lastsyncFile =>
            \E s \in Procs :
                /\ pc[s] = "set_last_sync" /\ pc'[s] = "finally"
                /\ exc[s] = "none"
                /\ ~config.dryrun
                /\ lastsyncFile' = syncer[s].syncstart]_vars
    /\ [](\A s \in Procs :
            /\ stored[s] <= 1
            /\ stored[s] = 1 =>
                   /\ ~config.dryrun
                   /\ pc[s] \notin InRun
                   /\ exc[s] \notin CycleErrors
                   /\ lastsyncFile = syncer[s].syncstart
            /\ (pc[s] = "finally" /\ exc[s] # "none" /\ syncer[s].lastsync # None) =>
                   /\ stored[s] = 0
                   /\ LoadedLastSync(lastsyncFile) = syncer[s].lastsync)

\* A cycle has stored its marker: the line is the time of the check, and the
\* clock has moved on since.
C10_Witness ==
    \E s \in Procs :
        /\ stored[s] = 1 /\ pc[s] = "finally"
        /\ lastsyncFile = syncer[s].syncstart
        /\ syncer[s].syncstart < clock
        /\ syncer[s].upload # <<>>

\* ------------------------------------------------------------- claims: the plan

\* Instance s has computed its plan and not yet applied it.
Planned(s) == pc[s] = "action"

Differing(s) == Range(syncer[s].diff)
MissingOnRemote(s) == Range(syncer[s].src)
MissingOnLocal(s) == Range(syncer[s].dst)

Upload(s) == Range(syncer[s].upload)

Download(s) == Range(syncer[s].download)

LocalBackup(s) == Range(syncer[s].local_backup)

RemoteBackup(s) == Range(syncer[s].remote_backup)
LocalMove(s) == Range(syncer[s].local_move)
MoveSources(s) == {m[1] : m \in LocalMove(s)}
MoveTargets(s) == {m[2] : m \in LocalMove(s)}

LocalChanged(s, p) == GE(syncer[s].local_check[p], syncer[s].lastsync)
RemoteChanged(s, p) == GE(syncer[s].remote_check[p], syncer[s].lastsync)

\* The three cases of a Differing path.
LocalOnly(s, p) == LocalChanged(s, p) /\ ~RemoteChanged(s, p)
RemoteOnly(s, p) == ~LocalChanged(s, p) /\ RemoteChanged(s, p)
Conflicting(s, p) == LocalChanged(s, p) <=> RemoteChanged(s, p)

\* The shapes a Differing path can take in the plan.
UploadOnly(s, p) ==
    p \in Upload(s) /\ p \notin Download(s) /\ p \notin MoveSources(s)
DownloadOnly(s, p) ==
    p \in Download(s) /\ p \notin Upload(s) /\ p \notin MoveSources(s)
ConflictTriple(s, p, suffix) ==
    /\ <<p, ConflictName(p, suffix)>> \in LocalMove(s)
    /\ p \in Download(s)
    /\ ConflictName(p, suffix) \in Upload(s)

\* No conflict name p+suffix of the plan is itself a path of the snapshot.
NoCollision(s) ==
    MoveTargets(s) \cap (Differing(s) \cup MissingOnRemote(s) \cup MissingOnLocal(s)) = {}

\* A Differing path changed only locally is upload-only, one changed only
\* remotely is download-only.
OneSidedChange(s) ==
    \A p \in Differing(s) :
        /\ LocalOnly(s, p) => UploadOnly(s, p)
        /\ RemoteOnly(s, p) => DownloadOnly(s, p)

\* C5 (as claimed): a Differing path changed only locally is in Upload, not
\* in Download and no LocalMove source; one changed only remotely is in
\* Download, not in Upload and no LocalMove source. A modtime equal to
\* lastsync is a change.
C5_OneSidedChange ==
    \A s \in Procs : Planned(s) => OneSidedChange(s)

\* What holds of C5: the same, for a plan without a name collision.
OneSidedChangeWithoutCollision ==
    \A s \in Procs : (Planned(s) /\ NoCollision(s)) => OneSidedChange(s)

\* The number of the three shapes that p has in the plan of s.
ShapeCount(s, p) ==
    Cardinality({k \in 1 .. 3 :
        \/ k = 1 /\ UploadOnly(s, p)
        \/ k = 2 /\ DownloadOnly(s, p)
        \/ k = 3 /\ \E suffix \in PlanTimes : ConflictTriple(s, p, suffix)})

\* Every conflicting path has its triple, with one suffix, and every
\* Differing path has exactly one shape.
ConflictTriples(s) ==
    /\ \E suffix \in PlanTimes :
           \A p \in Differing(s) :
               Conflicting(s, p) => ConflictTriple(s, p, suffix)
    /\ \A p \in Differing(s) : ShapeCount(s, p) = 1

\* C6 (as claimed): every Differing path changed on both sides or on none
\* has the LocalMove pair (p, p+suffix), p in Download and p+suffix in
\* Upload, with one suffix for the whole cycle; and every Differing path has
\* exactly one of the shapes upload-only, download-only, conflict triple.
C6_ConflictTriple ==
    \A s \in Procs : Planned(s) => ConflictTriples(s)

\* What holds of C6: the same, for a plan without a name collision.
ConflictTriplesWithoutCollision ==
    \A s \in Procs : (Planned(s) /\ NoCollision(s)) => ConflictTriples(s)

\* The lists of the plan of s that hold p, LocalMove by its sources.
ListsHolding(s, p) ==
    {l \in {"upload", "download", "local_backup", "remote_backup", "local_move"} :
        \/ l = "upload" /\ p \in Upload(s)
        \/ l = "download" /\ p \in Download(s)
        \/ l = "local_backup" /\ p \in LocalBackup(s)
        \/ l = "remote_backup" /\ p \in RemoteBackup(s)
        \/ l = "local_move" /\ p \in MoveSources(s)}

\* Every orphan is in the one list its modtime asks for.
Orphans(s) ==
    /\ \A p \in MissingOnRemote(s) :
           ListsHolding(s, p) =
               IF LocalChanged(s, p) THEN {"upload"} ELSE {"local_backup"}
    /\ \A p \in MissingOnLocal(s) :
           ListsHolding(s, p) =
               IF RemoteChanged(s, p) THEN {"download"} ELSE {"remote_backup"}

\* C7 (as claimed): a path missing on the remote is in exactly one list,
\* Upload if its local modtime >= lastsync and LocalBackup otherwise; a path
\* missing on local is in exactly one list, Download if its remote modtime
\* >= lastsync and RemoteBackup otherwise; careful or not.
C7_Orphans ==
    \A s \in Procs : Planned(s) => Orphans(s)

\* What holds of C7: the same, for a plan without a name collision.
OrphansWithoutCollision ==
    \A s \in Procs : (Planned(s) /\ NoCollision(s)) => Orphans(s)

\* C8: a Differing path uploaded as a local-only change is in RemoteBackup
\* iff careful; one downloaded as a remote-only change is in LocalBackup iff
\* careful; without careful the backup lists hold the old orphans only.
C8_CarefulMode ==
    \A s \in Procs : Planned(s) =>
        /\ \A p \in Differing(s) :
               /\ LocalOnly(s, p) => (p \in RemoteBackup(s) <=> config.careful)
               /\ RemoteOnly(s, p) => (p \in LocalBackup(s) <=> config.careful)
        /\ ~config.careful =>
               /\ LocalBackup(s) = {p \in MissingOnRemote(s) : ~LocalChanged(s, p)}
               /\ RemoteBackup(s) = {p \in MissingOnLocal(s) : ~RemoteChanged(s, p)}

\* A careful plan that backs up the remote side of an upload and the local
\* side of a download.
C8_Witness ==
    /\ Planned(1) /\ config.careful
    /\ \E p, q \in Differing(1) :
           /\ LocalOnly(1, p) /\ p \in RemoteBackup(1)
           /\ RemoteOnly(1, q) /\ q \in LocalBackup(1)

\* sort has run a second time on the snapshot, with lastsync the syncstart
\* the first cycle stored.
Replanned(s) ==
    /\ Planned(s) /\ stored[s] = 1
    /\ syncer[s].lastsync = Parsed(syncer[s].syncstart)

PlanIsEmpty(s) ==
    /\ syncer[s].upload = <<>> /\ syncer[s].download = <<>>
    /\ syncer[s].local_move = <<>>
    /\ syncer[s].local_backup = <<>> /\ syncer[s].remote_backup = <<>>

SnapshotIsEmpty(s) ==
    syncer[s].diff = <<>> /\ syncer[s].src = <<>> /\ syncer[s].dst = <<>>

\* C9 (as claimed): sort run again on the unchanged snapshot, with lastsync
\* the start time of the cycle before, gives an empty plan.
C9_Idempotence ==
    \A s \in Procs : Replanned(s) => PlanIsEmpty(s)

\* C9 (amended): sort run again on the unchanged snapshot gives an empty
\* plan only for an empty snapshot; every path of the snapshot is planned
\* again: a Differing path older than the new lastsync on both sides as a
\* conflict triple, an orphan older than it as a backup.
C9_IdempotenceAmended ==
    \A s \in Procs : Replanned(s) =>
        /\ PlanIsEmpty(s) <=> SnapshotIsEmpty(s)
        /\ \A p \in Differing(s) :
               (~LocalChanged(s, p) /\ ~RemoteChanged(s, p)) =>
                   ConflictTriple(s, p, clock)
        /\ \A p \in MissingOnRemote(s) : ~LocalChanged(s, p) => p \in LocalBackup(s)
        /\ \A p \in MissingOnLocal(s) : ~RemoteChanged(s, p) => p \in RemoteBackup(s)

\* The second plan for a snapshot whose only path is an old file missing on
\* local: the file is planned for backup on the remote.
C9_Witness ==
    /\ Replanned(1)
    /\ syncer[1].diff = <<>> /\ syncer[1].src = <<>>
    /\ \E p \in MissingOnLocal(1) :
           ~RemoteChanged(1, p) /\ syncer[1].remote_backup = <<p>>

\* ------------------------------------------------------------- claims: dry run and the executor

\* The positions of run() after get_modtimes.
PastListing == InRun \ {"load", "check", "check_read", "get_modtimes", "lsf_local", "lsf_remote"}

\* rclone check and the two rclone lsf were the first commands of the cycle.
ListingPassesRan(s) ==
    /\ Len(calls[s]) >= 3
    /\ calls[s][1] = [cmd |-> "check", list |-> "diff", dry |-> FALSE]
    /\ calls[s][2].cmd = "lsf" /\ calls[s][2].list = "local_check"
    /\ calls[s][3].cmd = "lsf" /\ calls[s][3].list = "remote_check"

\* C11: with dryrun true no step of a cycle changes the folder, the remote,
\* the backups or the marker, whatever the diff and the plan are and also
\* when a command fails, while rclone check (without --dry-run) and the two
\* rclone lsf still run before the plan is made.
C11_DryRunChangesNothing ==
    /\ [][config.dryrun =>
            /\ folder' = folder /\ remote' = remote
            /\ folder_backups' = folder_backups
            /\ remote_backups' = remote_backups
            /\ lastsyncFile' = lastsyncFile]_vars
    /\ [](\A s \in Procs :
            (config.dryrun /\ pc[s] \in PastListing) => ListingPassesRan(s))

\* A dry run has gone through action with a rename, a local backup and an
\* upload in its plan, and the trees are as they were before the cycle.
C11_Witness ==
    /\ config.dryrun /\ pc[1] = "finally" /\ exc[1] = "none"
    /\ syncer[1].local_move # <<>> /\ syncer[1].local_backup # <<>>
    /\ syncer[1].upload # <<>>
    /\ Len(calls[1]) > 3
    /\ folder = pre_cycle.folder /\ remote = pre_cycle.remote

\* The commands of the cycle of s after rclone check and the two rclone lsf.
ActionCalls(s) == SubSeq(calls[s], 4, Len(calls[s]))

\* The commands a block of action runs for a list that is not empty.
BlockCalls(l, list, cmds, dry) ==
    IF l = <<>> THEN <<>>
    ELSE [k \in 1 .. Len(cmds) |-> [cmd |-> cmds[k], list |-> list, dry |-> dry]]

\* The commands action runs for the plan of s, in the order of its text:
\* one mv for every pair of local_move unless dry, copy and delete for
\* local_backup, copy and delete for remote_backup, copy for upload, copy
\* for download.
ExpectedCalls(s, dry) ==
    (IF dry THEN <<>>
     ELSE [k \in 1 .. Len(syncer[s].local_move) |->
              [cmd |-> "mv", list |-> "local_move", dry |-> FALSE]])
    \o BlockCalls(syncer[s].local_backup, "local_backup", <<"copy", "delete">>, dry)
    \o BlockCalls(syncer[s].remote_backup, "remote_backup", <<"copy", "delete">>, dry)
    \o BlockCalls(syncer[s].upload, "upload", <<"copy">>, dry)
    \o BlockCalls(syncer[s].download, "download", <<"copy">>, dry)

\* C12 (as claimed): in a cycle with dryrun true no mv and no copy or delete
\* for LocalBackup or RemoteBackup is issued, also when those lists are not
\* empty; only the copies of Upload and Download are issued.
C12_DryRunSuppressesBackups ==
    \A s \in Procs : config.dryrun =>
        \A k \in DOMAIN calls[s] :
            calls[s][k].list \notin {"local_move", "local_backup", "remote_backup"}

\* C12 (amended): in a cycle with dryrun true no mv is issued, and every
\* other command of action is issued with --dry-run: the copy and the delete
\* of LocalBackup and of RemoteBackup when those lists are not empty, and
\* the copies of Upload and Download; only rclone check runs without it.
C12_DryRunSimulatesBackups ==
    \A s \in Procs : config.dryrun =>
        /\ \A k \in DOMAIN calls[s] :
               /\ calls[s][k].cmd # "mv"
               /\ calls[s][k].cmd # "check" => calls[s][k].dry
        /\ pc[s] = "set_last_sync" => ActionCalls(s) = ExpectedCalls(s, TRUE)

\* A dry run whose plan has a local and a remote backup has gone through
\* action: delete was issued with --dry-run for the two lists.
C12_Witness ==
    /\ config.dryrun /\ pc[1] = "set_last_sync"
    /\ syncer[1].local_backup # <<>> /\ syncer[1].remote_backup # <<>>
    /\ \E k \in DOMAIN calls[1] :
           calls[1][k] = [cmd |-> "delete", list |-> "local_backup", dry |-> TRUE]
    /\ \E k \in DOMAIN calls[1] :
           calls[1][k] = [cmd |-> "delete", list |-> "remote_backup", dry |-> TRUE]

\* a is the beginning of b.
Prefix(a, b) == Len(a) <= Len(b) /\ SubSeq(b, 1, Len(a)) = a

\* C14: the commands action has issued are at every moment a beginning of
\* the sequence: every mv of LocalMove, then copy and delete for LocalBackup,
\* then copy and delete for RemoteBackup, then the copy of Upload, then the
\* copy of Download, with no command for an empty list; a command is issued
\* when the one before it has returned, and when action returns the whole
\* sequence has been issued.
C14_ExecutorOrder ==
    \A s \in Procs :
        /\ Prefix(ActionCalls(s), ExpectedCalls(s, config.dryrun))
        /\ pc[s] = "set_last_sync" => ActionCalls(s) = ExpectedCalls(s, config.dryrun)

\* action has returned for a plan with a rename, a local backup, an upload
\* and a download and no remote backup: six commands were issued.
C14_Witness ==
    /\ ~config.dryrun /\ pc[1] = "set_last_sync"
    /\ syncer[1].local_move # <<>> /\ syncer[1].local_backup # <<>>
    /\ syncer[1].remote_backup = <<>>
    /\ syncer[1].upload # <<>> /\ syncer[1].download # <<>>
    /\ Len(ActionCalls(1)) = Len(syncer[1].local_move) + 4

\* ------------------------------------------------------------- claims: more on the plan

\* The paths of the snapshot the plan of s was made from.
SnapshotPaths(s) == Differing(s) \cup MissingOnRemote(s) \cup MissingOnLocal(s)

\* C13 (as claimed): every entry of Upload, every entry of Download and
\* every LocalMove target is a path of Differing, MissingOnRemote or
\* MissingOnLocal.
C13_PlanKeyDomain ==
    \A s \in Procs : Planned(s) =>
        Upload(s) \cup Download(s) \cup MoveTargets(s) \subseteq SnapshotPaths(s)

\* C13 (amended): every entry of Download is a path of Differing or
\* MissingOnLocal and every LocalMove source is a path of Differing; a
\* LocalMove target is its source with the conflict suffix of the cycle, a
\* name sort makes up; every entry of Upload is a path of Differing or
\* MissingOnRemote or such a target.
C13_PlanKeyDomainAmended ==
    \A s \in Procs : Planned(s) =>
        /\ Download(s) \subseteq Differing(s) \cup MissingOnLocal(s)
        /\ MoveSources(s) \subseteq Differing(s)
        /\ \A m \in LocalMove(s) : m[2] = Append(m[1], clock)
        /\ Upload(s) \subseteq Differing(s) \cup MissingOnRemote(s) \cup MoveTargets(s)

\* A plan with a conflict whose renamed copy, a name that is no path of the
\* snapshot, is in Upload.
C13_Witness ==
    /\ Planned(1)
    /\ \E m \in LocalMove(1) :
           /\ m[2] \notin SnapshotPaths(1)
           /\ m[2] \in Upload(1)
           /\ m[1] \in Download(1)

\* ------------------------------------------------------------- claims: the trees after a cycle

\* The contents held by some file of the two trees or of their backups.
Kept ==
    {folder[p].c : p \in DOMAIN folder} \cup {remote[p].c : p \in DOMAIN remote}
    \cup {folder_backups[k].c : k \in DOMAIN folder_backups}
    \cup {remote_backups[k].c : k \in DOMAIN remote_backups}

\* The cycle of s has run to its end and stored its marker (dryrun is false).
Succeeded(s) == pc[s] = "finally" /\ exc[s] = "none" /\ stored[s] = 1

\* What the two sides held at the paths of the snapshot before the cycle is
\* still held by some file.
NothingLost(s) ==
    \A p \in SnapshotPaths(s) :
        /\ p \in DOMAIN pre_cycle.folder => pre_cycle.folder[p].c \in Kept
        /\ p \in DOMAIN pre_cycle.remote => pre_cycle.remote[p].c \in Kept

\* C15 (as claimed): with careful true, after a successful cycle the content
\* each side held before the cycle at a path of the diff survives: in the
\* live trees, in the backups of the cycle or under p+suffix.
C15_ArchiveBeforeOverwrite ==
    \A s \in Procs : (Succeeded(s) /\ config.careful) => NothingLost(s)

\* What holds of C15: the same, for a plan without a name collision.
ArchiveBeforeOverwriteWithoutCollision ==
    \A s \in Procs :
        (Succeeded(s) /\ config.careful /\ NoCollision(s)) => NothingLost(s)

\* ------------------------------------------------------------- claims: scratch files and cancellation

\* C16 (as claimed): when a cycle ends, because run() returned or because a
\* backend command exited non-zero, no scratch file is left in sync.tmp/.
C16_ScratchCleanup ==
    \A s \in Procs :
        (pc[s] = "finally" /\ exc[s] \in {"none", "CalledProcessError"}) =>
            scratch = {}

\* What holds of C16: no scratch file is left when run() returned.
ScratchCleanOnSuccess ==
    \A s \in Procs : (pc[s] = "finally" /\ exc[s] = "none") => scratch = {}

\* The process of s ends with exit code 0 only by an interrupt of the sleep
\* between two cycles, with the lock marker gone; an interrupt that arrives
\* while the cycle is in progress never ends it that way.
CleanExitOnlyFromSleep ==
    [][\A s \in Procs :
          /\ (pc'[s] = "exit0" /\ pc[s] # "exit0") =>
                 /\ pc[s] = "sleep"
                 /\ exc'[s] = "KeyboardInterrupt"
                 /\ ~lockDir
          /\ (InCycle(s) /\ exc'[s] = "KeyboardInterrupt") => pc'[s] # "exit0"
          /\ (pc[s] = "finally" /\ exc[s] = "KeyboardInterrupt") =>
                 pc'[s] \in {"finally", "killed"}]_vars

\* C17 (as claimed): an interrupt is a clean exit (code 0, lock not held)
\* only during the sleep between cycles, never while a cycle is in progress;
\* and after every cycle, whatever its runtime, the loop goes to that sleep.
C17_Cancellation ==
    /\ CleanExitOnlyFromSleep
    /\ [][\A s \in Procs :
             (pc[s] = "after" /\ pc'[s] \notin {"after", "killed"}) =>
                 pc'[s] = "sleep"]_vars

\* C17 (amended): the same, but the loop goes to the sleep only after a
\* cycle whose runtime is at most the interval; after a longer cycle it
\* starts the next cycle at once, and no interrupt is a clean exit before a
\* later cycle ends in time.
C17_CancellationAmended ==
    /\ CleanExitOnlyFromSleep
    /\ [][\A s \in Procs :
             (pc[s] = "after" /\ pc'[s] \notin {"after", "killed"}) =>
                 pc'[s] = IF clock - start[s] <= Interval THEN "sleep" ELSE "start"]_vars

\* A cycle has run longer than the interval and the loop is back at its top
\* without having slept.
C17_Witness ==
    /\ pc[1] = "start" /\ exc[1] = "none"
    /\ calls[1] # <<>>
    /\ clock - start[1] > Interval
    /\ ~lockDir

\* The plan of s is empty of backups, every path missing on the remote is
\* uploaded and every path missing on local is downloaded.
RemovesNothing(s) ==
    /\ LocalBackup(s) = {} /\ RemoteBackup(s) = {}
    /\ MissingOnRemote(s) \subseteq Upload(s)
    /\ MissingOnLocal(s) \subseteq Download(s)

\* Every modtime of the snapshot of s compares >= lastsync.
AllChanged(s) ==
    /\ \A p \in DOMAIN syncer[s].local_check : LocalChanged(s, p)
    /\ \A p \in DOMAIN syncer[s].remote_check : RemoteChanged(s, p)

\* C18 (as claimed): when there is no marker, lastsync is time.localtime(0),
\* every modtime compares >= lastsync, and the plan has no LocalBackup and no
\* RemoteBackup, for either value of careful, uploads every path missing on
\* the remote and downloads every path missing on local.
C18_FirstSyncRemovesNothing ==
    \A s \in Procs :
        (Planned(s) /\ syncer[s].lastsync = Epoch) =>
            AllChanged(s) /\ RemovesNothing(s)

\* What holds of C18: the same, when every file of the snapshot was
\* modified after 1970-01-01 00:00:00 local time.
FirstSyncAfterEpoch ==
    \A s \in Procs :
        (/\ Planned(s) /\ syncer[s].lastsync = Epoch
         /\ \A p \in DOMAIN syncer[s].local_check : syncer[s].local_check[p].t > 0
         /\ \A p \in DOMAIN syncer[s].remote_check : syncer[s].remote_check[p].t > 0)
            => AllChanged(s) /\ RemovesNothing(s)

\* C19: when no conflict name p+suffix is itself a path of the snapshot, no
\* path is in both Upload and Download, none in both LocalBackup and Upload,
\* none in both RemoteBackup and Download, and no LocalMove source is in
\* LocalBackup or Upload: a file that an archive-then-remove step takes away
\* is not the source of a later copy of the cycle.
C19_PlanConsistency ==
    \A s \in Procs : (Planned(s) /\ NoCollision(s)) =>
        /\ Upload(s) \cap Download(s) = {}
        /\ LocalBackup(s) \cap Upload(s) = {}
        /\ RemoteBackup(s) \cap Download(s) = {}
        /\ MoveSources(s) \cap (LocalBackup(s) \cup Upload(s)) = {}

\* A plan without a name collision that has a conflict, a local backup, an
\* upload and a download.
C19_Witness ==
    /\ Planned(1) /\ NoCollision(1)
    /\ MoveSources(1) # {} /\ LocalBackup(1) # {}
    /\ Upload(1) # {} /\ Download(1) # {}

\* With such a plan every copy of action finds the files it is to copy.
CopySourcesPresent ==
    \A s \in Procs : (NoCollision(s) /\ ~config.dryrun) =>
        /\ pc[s] = "up_copy" => Upload(s) \subseteq DOMAIN folder
        /\ pc[s] = "down_copy" => Download(s) \subseteq DOMAIN remote

\* p is the same file on both sides, or on none.
InSync(p) ==
    IF p \in DOMAIN folder
    THEN p \in DOMAIN remote /\ folder[p] = remote[p]
    ELSE p \notin DOMAIN remote

\* rclone check would report nothing.
NoDifference == CheckOutput(folder, remote) = [diff |-> <<>>, dst |-> <<>>, src |-> <<>>]

\* The marker the cycle of s loaded was stored by the cycle before it: in
\* SpecApply a marker of an earlier run is older than the clock.
AfterStoredCycle(s) == syncer[s].lastsync = Parsed(clock)

\* C20: after a successful cycle with dryrun false, on trees nobody else
\* changes, every path of the cycle's diff and every conflict copy p+suffix
\* is the same file (content and modtime) on both sides or on none, a check
\* reports nothing, and in the next cycle the snapshot and the plan are
\* empty.
C20_Convergence ==
    \A s \in Procs :
        /\ Succeeded(s) =>
               /\ \A p \in SnapshotPaths(s) \cup MoveTargets(s) : InSync(p)
               /\ NoDifference
        /\ (AfterStoredCycle(s) /\ pc[s] \in PastListing) =>
               /\ SnapshotIsEmpty(s)
               /\ pc[s] # "sort" => PlanIsEmpty(s)

\* The cycle after one that renamed a conflicting file and archived a file
\* of the remote has made its plan: the plan is empty, the renamed copy is
\* on both sides.
C20_Witness ==
    /\ Planned(1) /\ AfterStoredCycle(1) /\ PlanIsEmpty(1)
    /\ remote_backups # EmptyTree
    /\ \E p \in DOMAIN folder : Len(p) = 2 /\ folder[p].c.at # p /\ InSync(p)

====
